---- MODULE Spec2Model ----
(***************************************************************************)
(* geocontext (src/geocontext.ipynb): for every query point, the radius    *)
(* around it that holds at least k individuals of the reference locations, *)
(* and group statistics over the locations inside that radius.             *)
(*                                                                         *)
(* A pandas table is a sequence of rows (records keyed by column name), a  *)
(* Python dict is a function from keys to values, a Python exception ends  *)
(* the call in pc = "raised" with its name in err.  Output column names    *)
(* are triples <<kind, group, k>>: f'radius_{g}_k{k}' is <<"radius",g,k>>  *)
(* and f'radius_k{k}' is <<"radius","",k>>.                                *)
(***************************************************************************)
EXTENDS Integers, Sequences, FiniteSets, TLC

VARIABLES args, kValues, popLocations, multi, results, pc, err, output

vars == <<args, kValues, popLocations, multi, results, pc, err, output>>

(* ------------------------------ bounds --------------------------------- *)
MaxPop == 2
MaxK == 2
NumLoc == 2

(* --------------------------- plain helpers ----------------------------- *)
Abs(x) == IF x < 0 THEN 0 - x ELSE x

RECURSIVE GCD(_, _)
GCD(a, b) == IF b = 0 THEN a ELSE GCD(b, a % b)

\* a float quotient n/d: a reduced fraction; pandas gives nan for 0/0 and
\* inf for x/0 (x > 0) instead of raising
Quotient(n, d) ==
    IF d = 0 THEN (IF n = 0 THEN <<0, 0>> ELSE <<1, 0>>)
    ELSE LET g == GCD(Abs(n), Abs(d))
             s == IF d < 0 THEN 0 - 1 ELSE 1
         IN  <<s * (n \div g), s * (d \div g)>>

\* math.sqrt of a float, kept symbolic
Sqrt(q) == <<"sqrt", q[1], q[2]>>

\* np.sqrt(x).astype('int') for an integer x >= 0
ISqrt(x) == CHOOSE r \in 0..x : r * r <= x /\ (r + 1) * (r + 1) > x

RECURSIVE Insert(_, _)
Insert(x, s) ==
    IF s = <<>> THEN <<x>>
    ELSE IF x <= Head(s) THEN <<x>> \o s
    ELSE <<Head(s)>> \o Insert(x, Tail(s))

\* SortList that leaves the list as the caller wrote it
SortListSkipped(s) == s

RECURSIVE SortList(_)
\* list.sort() on a list of integers
SortList(s) == IF s = <<>> THEN <<>> ELSE Insert(Head(s), SortList(Tail(s)))

\* dict[key] = val
Put(dict, key, val) == (key :> val) @@ dict

\* Series.iloc[i] on the rows of a table: negative i counts from the end,
\* out of range is an IndexError
ILocOK(tbl, i) == (0 - Len(tbl)) <= i /\ i < Len(tbl)
ILoc(tbl, i) == IF i < 0 THEN tbl[Len(tbl) + i + 1] ELSE tbl[i + 1]

RECURSIVE SumCol(_, _)
\* Series.sum() of column col over the rows of tbl
SumCol(tbl, col) ==
    IF tbl = <<>> THEN 0 ELSE Head(tbl)[col] + SumCol(Tail(tbl), col)

(* ------------------- distance and ordering (128-138) ------------------- *)
\* one cell of line 133-135: the Euclidean distance truncated by astype('int')
DistanceTo(point, row) ==
    ISqrt((point.North - row.North) * (point.North - row.North)
          + (point.East - row.East) * (point.East - row.East))

\* popLocations['Distance'] = <values>: adds the column or overwrites it
SetColumnDistance(row, d) ==
    [id |-> row.id, North |-> row.North, East |-> row.East,
     P1 |-> row.P1, P2 |-> row.P2, A |-> row.A, B |-> row.B, Distance |-> d]

\* line 125
ZeroDistance(tbl) == [i \in DOMAIN tbl |-> SetColumnDistance(tbl[i], 0)]

\* AssignDistance writing into the East column instead of Distance
AssignDistanceOverEast(tbl, point) ==
    [i \in DOMAIN tbl |->
        SetColumnDistance([tbl[i] EXCEPT !.East = DistanceTo(point, tbl[i])],
                          DistanceTo(point, tbl[i]))]

\* lines 133-135
AssignDistance(tbl, point) ==
    [i \in DOMAIN tbl |-> SetColumnDistance(tbl[i], DistanceTo(point, tbl[i]))]

IsAscending(tbl) ==
    \A i \in 1..(Len(tbl) - 1) : tbl[i].Distance <= tbl[i + 1].Distance

\* line 138: sort_values('Distance', inplace=True) uses the default
\* kind='quicksort', which is not stable: every ascending arrangement of the
\* rows is a possible outcome
SortValues(tbl) ==
    {s \in {[i \in DOMAIN tbl |-> tbl[p[i]]] : p \in Permutations(DOMAIN tbl)} :
        IsAscending(s)}

(* ----------------------- threshold walk (145-165) ---------------------- *)
RECURSIVE ConsumeInclusive(_, _, _, _)
\* Consume with the loop test written population <= kValue
ConsumeInclusive(tbl, pop_Column, st, kValue) ==
    IF st.population <= kValue
    THEN IF ~ILocOK(tbl, st.index)
         THEN [st EXCEPT !.err = "IndexError"]
         ELSE ConsumeInclusive(tbl, pop_Column,
                      [st EXCEPT !.population = @ + ILoc(tbl, st.index)[pop_Column],
                                 !.index = @ + 1],
                      kValue)
    ELSE st

RECURSIVE ConsumeClamped(_, _, _, _)
\* Consume that stops at the end of the table instead of raising
ConsumeClamped(tbl, pop_Column, st, kValue) ==
    IF st.population < kValue /\ ILocOK(tbl, st.index)
    THEN ConsumeClamped(tbl, pop_Column,
                      [st EXCEPT !.population = @ + ILoc(tbl, st.index)[pop_Column],
                                 !.index = @ + 1],
                      kValue)
    ELSE st

RECURSIVE Consume(_, _, _, _)
\* the while loop of lines 153-156; reading iloc[index] past the end raises
Consume(tbl, pop_Column, st, kValue) ==
    IF st.population < kValue
    THEN IF ~ILocOK(tbl, st.index)
         THEN [st EXCEPT !.err = "IndexError"]
         ELSE Consume(tbl, pop_Column,
                      [st EXCEPT !.population = @ + ILoc(tbl, st.index)[pop_Column],
                                 !.index = @ + 1],
                      kValue)
    ELSE st

\* the key of lines 162-165
RadiusKey(isMulti, group, kValue) ==
    IF isMulti THEN <<"radius", group, kValue>> ELSE <<"radius", "", kValue>>

\* WalkStep reading the radius at iloc[index] instead of iloc[index - 1]
WalkStepNextRow(tbl, pop_Column, isMulti, group, st, kValue) ==
    LET c == Consume(tbl, pop_Column, st, kValue) IN
    IF c.err # "" THEN c
    ELSE IF ~ILocOK(tbl, c.index) THEN [c EXCEPT !.err = "IndexError"]
    ELSE LET radius == ILoc(tbl, c.index).Distance IN
         [c EXCEPT !.radius_List = Append(@, radius),
                   !.result = Put(@, RadiusKey(isMulti, group, kValue), radius)]

\* one iteration of the for loop of line 150
WalkStep(tbl, pop_Column, isMulti, group, st, kValue) ==
    LET c == Consume(tbl, pop_Column, st, kValue) IN
    IF c.err # "" THEN c
    ELSE IF ~ILocOK(tbl, c.index - 1) THEN [c EXCEPT !.err = "IndexError"]
    ELSE LET radius == ILoc(tbl, c.index - 1).Distance IN
         [c EXCEPT !.radius_List = Append(@, radius),
                   !.result = Put(@, RadiusKey(isMulti, group, kValue), radius)]

RECURSIVE Walk(_, _, _, _, _, _)
\* lines 150-165, over the k-values from position i on
Walk(tbl, pop_Column, isMulti, group, st, ks) ==
    IF ks = <<>> \/ st.err # "" THEN st
    ELSE Walk(tbl, pop_Column, isMulti, group,
              WalkStep(tbl, pop_Column, isMulti, group, st, Head(ks)), Tail(ks))

(* ------------------------- aggregation (169-219) ----------------------- *)
\* Selection with the boundary distance left out
SelectionStrict(tbl, radius) == SelectSeq(tbl, LAMBDA row : row.Distance < radius)

\* Selection by count: the rows up to the first one at the radius
SelectionByCount(tbl, radius) ==
    SelectSeq(tbl, LAMBDA row :
        \/ row.Distance < radius
        \/ /\ row.Distance = radius
           /\ \A i \in DOMAIN tbl :
                  (tbl[i].Distance = radius /\ tbl[i].id # row.id) =>
                      \E j \in DOMAIN tbl : tbl[j].id = row.id /\ j < i)

\* line 172
Selection(tbl, radius) == SelectSeq(tbl, LAMBDA row : row.Distance <= radius)

RECURSIVE SumProd(_, _, _)
SumProd(sel, v, w) ==
    IF sel = <<>> THEN 0 ELSE Head(sel)[v] * Head(sel)[w] + SumProd(Tail(sel), v, w)

RECURSIVE SumSqDev(_, _, _, _, _)
\* sum of w_i * (v_i*D - N)^2, the numerator of the variance over D^3
SumSqDev(sel, v, w, N, D) ==
    IF sel = <<>> THEN 0
    ELSE Head(sel)[w] * (Head(sel)[v] * D - N) * (Head(sel)[v] * D - N)
         + SumSqDev(Tail(sel), v, w, N, D)

\* Average without the weights
AverageUnweighted(sel, group, pop_Column) == Quotient(SumCol(sel, group), Len(sel))

\* np.average(selection[group], weights=selection[pop_Column]), lines 182-183
\* and 200-201; defined when the weights do not sum to zero
Average(sel, group, pop_Column) ==
    Quotient(SumProd(sel, group, pop_Column), SumCol(sel, pop_Column))

\* np.average((selection[group] - average)**2, weights=...), lines 184-185
\* and 202-203
Variance(sel, group, pop_Column) ==
    LET D == SumCol(sel, pop_Column)
        N == SumProd(sel, group, pop_Column)
    IN  Quotient(SumSqDev(sel, group, pop_Column, N, D), D * D * D)

\* lines 177-192 and 195-209: the statistic of one group, chosen by flag
GroupStat(st, sel, group, pop_Column, flag, kValue) ==
    IF flag
    THEN [st EXCEPT !.result = Put(@, <<"group", group, kValue>>, SumCol(sel, group))]
    ELSE IF SumCol(sel, pop_Column) = 0
         THEN [st EXCEPT !.err = "ZeroDivisionError"]
         ELSE [st EXCEPT !.result =
                  Put(Put(@, <<"mean", group, kValue>>, Average(sel, group, pop_Column)),
                      <<"std", group, kValue>>, Sqrt(Variance(sel, group, pop_Column)))]

RECURSIVE SingleGroups(_, _, _, _, _, _)
\* lines 194-209: every group of the list, with the flag proportions[groupIndex]
SingleGroups(st, sel, gs, pop_Column, flag, kValue) ==
    IF gs = <<>> \/ st.err # "" THEN st
    ELSE SingleGroups(GroupStat(st, sel, Head(gs), pop_Column, flag, kValue),
                      sel, Tail(gs), pop_Column, flag, kValue)

\* the key of lines 212-219
TotalKey(isMulti, group, kValue) ==
    IF isMulti THEN <<"total", group, kValue>> ELSE <<"total", "", kValue>>

\* one iteration of the for loop of line 169
AggregateStep(tbl, a, pop_Column, isMulti, groupIndex, st, k_Index) ==
    LET sel   == Selection(tbl, st.radius_List[k_Index + 1])
        kV    == kValues[k_Index + 1]
        flag  == a.proportions[groupIndex + 1]
        group == a.groups[groupIndex + 1]
        g == IF isMulti
             THEN GroupStat(st, sel, group, pop_Column, flag, kV)
             ELSE SingleGroups(st, sel, a.groups, pop_Column, flag, kV)
    IN  IF g.err # "" THEN g
        ELSE [g EXCEPT !.result =
                  Put(@, TotalKey(isMulti, group, kV), SumCol(sel, pop_Column))]

RECURSIVE Aggregate(_, _, _, _, _, _, _)
\* lines 169-219, from k_Index on
Aggregate(tbl, a, pop_Column, isMulti, groupIndex, st, k_Index) ==
    IF k_Index >= Len(kValues) \/ st.err # "" THEN st
    ELSE Aggregate(tbl, a, pop_Column, isMulti, groupIndex,
                   AggregateStep(tbl, a, pop_Column, isMulti, groupIndex, st, k_Index),
                   k_Index + 1)

\* the body of the for loop of line 142 for one population column
Measure(tbl, a, isMulti, groupIndex, result) ==
    LET pop_Column == a.populations[groupIndex + 1]
        st0 == [radius_List |-> <<>>, population |-> 0, index |-> 0,
                result |-> result, err |-> ""]
        w == Walk(tbl, pop_Column, isMulti, a.groups[groupIndex + 1], st0, kValues)
    IN  Aggregate(tbl, a, pop_Column, isMulti, groupIndex, w, 0)

RECURSIVE Measures(_, _, _, _, _)
\* lines 141-221, from groupIndex on
Measures(tbl, a, isMulti, groupIndex, st) ==
    IF groupIndex >= Len(a.populations) \/ st.err # "" THEN st
    ELSE Measures(tbl, a, isMulti, groupIndex + 1,
                  Measure(tbl, a, isMulti, groupIndex, st.result))

\* lines 129 and 141-221 on the sorted table: the row of one point
PointResult(tbl, a, isMulti, pointIndex) ==
    Measures(tbl, a, isMulti, 0,
             [result |-> (<<"pointIndex", "", 0>> :> pointIndex), err |-> ""])

(* ----------------------- finishing pass (224-243) ---------------------- *)
\* a column of the DataFrame built from the list of result dicts
HasColumn(tbl, key) == \A i \in DOMAIN tbl : key \in DOMAIN tbl[i]

\* FinishGroup with the operands of the division exchanged
FinishGroupInverted(a, isMulti, st, kValue, groupIndex) ==
    LET group == a.groups[groupIndex + 1]
        gKey  == <<"group", group, kValue>>
        tKey  == TotalKey(isMulti, group, kValue)
    IN  IF ~a.proportions[groupIndex + 1] THEN st
        ELSE IF ~(HasColumn(st.points, gKey) /\ HasColumn(st.points, tKey))
        THEN [st EXCEPT !.err = "KeyError"]
        ELSE [st EXCEPT !.points =
                 [i \in DOMAIN @ |->
                     Put(@[i], <<"mean", group, kValue>>,
                         Quotient(@[i][tKey], @[i][gKey]))]]

\* lines 232-238 for one k-value and one group
FinishGroup(a, isMulti, st, kValue, groupIndex) ==
    LET group == a.groups[groupIndex + 1]
        gKey  == <<"group", group, kValue>>
        tKey  == TotalKey(isMulti, group, kValue)
    IN  IF ~a.proportions[groupIndex + 1] THEN st
        ELSE IF ~(HasColumn(st.points, gKey) /\ HasColumn(st.points, tKey))
        THEN [st EXCEPT !.err = "KeyError"]
        ELSE [st EXCEPT !.points =
                 [i \in DOMAIN @ |->
                     Put(@[i], <<"mean", group, kValue>>,
                         Quotient(@[i][gKey], @[i][tKey]))]]

RECURSIVE FinishGroups(_, _, _, _, _)
\* lines 230-239, from groupIndex on
FinishGroups(a, isMulti, st, kValue, groupIndex) ==
    IF groupIndex >= Len(a.groups) \/ st.err # "" THEN st
    ELSE FinishGroups(a, isMulti, FinishGroup(a, isMulti, st, kValue, groupIndex),
                      kValue, groupIndex + 1)

RECURSIVE FinishPass(_, _, _, _)
\* lines 229-239
FinishPass(a, isMulti, st, ks) ==
    IF ks = <<>> \/ st.err # "" THEN st
    ELSE FinishPass(a, isMulti, FinishGroups(a, isMulti, st, Head(ks), 0), Tail(ks))

\* lines 224-243: pd.DataFrame([]) has no column 'pointIndex' to index by
Finished(a, isMulti, rs, ks) ==
    IF rs = <<>> THEN [points |-> <<>>, err |-> "KeyError"]
    ELSE FinishPass(a, isMulti, [points |-> rs, err |-> ""], ks)

(* ------------------------------ inputs --------------------------------- *)
ListsUpTo2(S) == {<<x>> : x \in S} \cup {<<x, y>> : x \in S, y \in S}

\* k lists as a caller may write them: unsorted and with repeats too
KLists == ListsUpTo2(0..MaxK)

AscendingKLists == {ks \in KLists : Len(ks) = 1 \/ ks[1] < ks[2]}

Origin == [North |-> 0, East |-> 0]

\* sites at distances 0, 1 and sqrt(2) of the origin
Sites == {Origin, [North |-> 0, East |-> 1], [North |-> 1, East |-> 1]}

\* one point, or two points of which the first leaves the table in its order
WalkPoints == {<<Origin>>, <<[North |-> 0, East |-> 1], Origin>>}

\* reference locations with one population column and one group column in use
WalkRows(i) ==
    {[id |-> i, North |-> c.North, East |-> c.East,
      P1 |-> p, P2 |-> 0, A |-> 1, B |-> 0] : c \in Sites, p \in 0..MaxPop}

\* the site of the i-th location of the group tables
GroupSite(i) ==
    IF i = 1 THEN Origin
    ELSE IF i = 2 THEN [North |-> 0, East |-> 1]
    ELSE [North |-> 1, East |-> 1]

\* reference locations at fixed sites with two population columns and two
\* group columns in use, the second of each the complement of the first
GroupRows(i) ==
    {[id |-> i, North |-> GroupSite(i).North, East |-> GroupSite(i).East,
      P1 |-> p, P2 |-> MaxPop - p,
      A |-> v, B |-> IF v = 0 THEN 1 ELSE 0] : p \in 0..MaxPop, v \in {0, 1}}

\* a point on the first location, or one at truncated distance 1 of all
GroupPoints == {<<Origin>>, <<[North |-> 1, East |-> 0]>>}

GroupKLists == {<<k>> : k \in 0..MaxK} \cup {<<1, MaxK>>}

ConfigRows(i) ==
    {[id |-> i, North |-> 0, East |-> i - 1,
      P1 |-> p, P2 |-> 1, A |-> 1, B |-> 0] : p \in 0..MaxPop}

Rows(family, i) ==
    CASE family = "walk" -> WalkRows(i)
      [] family = "group" -> GroupRows(i)
      [] family = "config" -> ConfigRows(i)

RECURSIVE Tables(_, _)
\* the reference tables of n rows of a family
Tables(family, n) ==
    IF n = 0 THEN {<<>>}
    ELSE {Append(t, r) : t \in Tables(family, n - 1), r \in Rows(family, n)}

Flags == {<<x, y>> : x \in BOOLEAN, y \in BOOLEAN}

WalkArgs ==
    [points : WalkPoints, popLocations : Tables("walk", NumLoc),
     groups : {<<"A">>}, groupsType : {"list"},
     populations : {<<"P1">>}, populationsType : {"list"},
     proportions : {<<TRUE>>}, kValues : AscendingKLists, kValuesType : {"list"}]

GroupArgs ==
    [points : GroupPoints, popLocations : Tables("group", NumLoc),
     groups : {<<"A", "B">>}, groupsType : {"list"},
     populations : {<<"P1">>, <<"P1", "P2">>}, populationsType : {"list"},
     proportions : Flags, kValues : GroupKLists, kValuesType : {"list"}]

ConfigArgs ==
    [points : {<<>>, <<Origin>>},
     popLocations : Tables("config", NumLoc),
     groups : {<<"A">>, <<"A", "B">>}, groupsType : {"list", "str"},
     populations : {<<"P1">>, <<"P1", "P2">>},
     populationsType : {"list", "str", "tuple"},
     proportions : {<<TRUE, TRUE>>}, kValues : KLists,
     kValuesType : {"list", "tuple"}]

(* ------------------------- the call of geocontext ---------------------- *)
\* the state at the call: the caller's k list and reference table are the
\* objects the function works on
Called(a) ==
    /\ args = a
    /\ kValues = a.kValues
    /\ popLocations = a.popLocations
    /\ multi = FALSE
    /\ results = <<>>
    /\ pc = "called"
    /\ err = ""
    /\ output = <<>>

Init == \E a \in WalkArgs : Called(a)

InitGroups == \E a \in GroupArgs : Called(a)

InitConfig == \E a \in ConfigArgs : Called(a)

\* lines 98-113: the exception the checks raise, "" when they pass
CheckError(a) ==
    IF a.groupsType # "list" THEN "TypeError"
    ELSE IF a.populationsType # "list" THEN "TypeError"
    ELSE IF Len(a.populations) # 1 /\ Len(a.groups) # Len(a.populations)
         THEN "IndexError"
    ELSE IF a.kValuesType # "list" THEN "TypeError"
    ELSE ""

\* lines 98-125
Validate ==
    /\ pc = "called"
    /\ IF CheckError(args) # ""
       THEN /\ pc' = "raised"
            /\ err' = CheckError(args)
            /\ UNCHANGED <<kValues, popLocations, multi, results>>
       ELSE /\ multi' = (Len(args.populations) # 1)
            /\ kValues' = SortList(kValues)
            /\ results' = <<>>
            /\ popLocations' = ZeroDistance(popLocations)
            /\ pc' = "loop"
            /\ err' = ""
    /\ UNCHANGED <<args, output>>

\* lines 128-222 for the next point
ProcessPoint ==
    /\ pc = "loop"
    /\ Len(results) < Len(args.points)
    /\ \E sorted \in SortValues(AssignDistance(popLocations, args.points[Len(results) + 1])) :
          LET r == PointResult(sorted, args, multi, Len(results)) IN
          /\ popLocations' = sorted
          /\ IF r.err = ""
             THEN /\ results' = Append(results, r.result)
                  /\ UNCHANGED <<pc, err>>
             ELSE /\ pc' = "raised"
                  /\ err' = r.err
                  /\ UNCHANGED results
    /\ UNCHANGED <<args, kValues, multi, output>>

\* lines 224-243
Finish ==
    /\ pc = "loop"
    /\ Len(results) = Len(args.points)
    /\ LET f == Finished(args, multi, results, kValues) IN
       IF f.err = ""
       THEN /\ pc' = "returned"
            /\ output' = f.points
            /\ UNCHANGED err
       ELSE /\ pc' = "raised"
            /\ err' = f.err
            /\ UNCHANGED output
    /\ UNCHANGED <<args, kValues, popLocations, multi, results>>

Next == Validate \/ ProcessPoint \/ Finish

Spec == Init /\ [][Next]_vars

SpecGroups == InitGroups /\ [][Next]_vars

SpecConfig == InitConfig /\ [][Next]_vars

(* ------------------- what the claims are stated about ------------------ *)
\* the reference locations as passed by the caller, as a set
Locations == {args.popLocations[i] : i \in DOMAIN args.popLocations}

Within(point, d) == {r \in Locations : DistanceTo(point, r) <= d}

RECURSIVE SetSum(_, _)
\* the sum of column col over a set of rows
SetSum(S, col) ==
    IF S = {} THEN 0
    ELSE LET r == CHOOSE x \in S : TRUE IN r[col] + SetSum(S \ {r}, col)

Distances(point) == {DistanceTo(point, r) : r \in Locations}

Reaches(point, col, d, k) == SetSum(Within(point, d), col) >= k

\* the measures of the run: <<group, population column>> by position
MeasureIndexes == 1..Len(args.populations)

KSet == {kValues[j] : j \in DOMAIN kValues}

\* C1: for every processed point, every measure and every k >= 1 of the list,
\* the recorded radius is the smallest truncated distance d such that the
\* population within d is at least k.
C1_RadiusIsMinimal ==
    \A i \in DOMAIN results : \A m \in MeasureIndexes : \A k \in KSet :
        k >= 1 =>
            LET radius == results[i][RadiusKey(multi, args.groups[m], k)]
                col == args.populations[m]
            IN  /\ radius \in Distances(args.points[i])
                /\ Reaches(args.points[i], col, radius, k)
                /\ \A d \in 0..radius :
                       d < radius => ~Reaches(args.points[i], col, d, k)

\* a point whose radius for k = 1 is 0 and for k = 2 is 1
C1_Witness ==
    \E i \in DOMAIN results :
        /\ {1, 2} \subseteq KSet
        /\ results[i][<<"radius", "", 1>>] = 0
        /\ results[i][<<"radius", "", 2>>] = 1

\* the total written for measure m and threshold k in a result row
TotalOf(row, m, k) == row[TotalKey(multi, args.groups[m], k)]

RadiusOf(row, m, k) == row[RadiusKey(multi, args.groups[m], k)]

\* C2 as stated: for every point, measure and k of the list the total
\* written is at least k, and the weights of the weighted mean never sum to
\* zero.
C2_TotalReachesKNeverZero ==
    /\ \A i \in DOMAIN results : \A m \in MeasureIndexes : \A k \in KSet :
           TotalOf(results[i], m, k) >= k
    /\ err # "ZeroDivisionError"

\* C2 amended: for every point, measure and k of the list the total written
\* is at least k; the weights of the weighted mean can sum to zero only when
\* the list holds a k <= 0.
C2_TotalReachesK ==
    /\ \A i \in DOMAIN results : \A m \in MeasureIndexes : \A k \in KSet :
           TotalOf(results[i], m, k) >= k
    /\ err = "ZeroDivisionError" => \E k \in KSet : k <= 0

\* a weighted-mode row whose radius for k = 1 holds two tied locations, each
\* of which reaches k alone, so that the total exceeds k
C2_Witness ==
    \E i \in DOMAIN results :
        /\ ~multi
        /\ 1 \in KSet
        /\ <<"mean", "A", 1>> \in DOMAIN results[i]
        /\ LET tied == {r \in Locations :
                           DistanceTo(args.points[i], r) = results[i][<<"radius", "", 1>>]}
           IN  /\ Cardinality(tied) >= 2
               /\ \A r \in tied : r.P1 >= 1
               /\ results[i][<<"total", "", 1>>] = SetSum(tied, "P1")

\* C3 as stated: for every point and measure, the recorded radius does not
\* decrease from a k of the list to a larger one, whatever integers it holds.
C3_RadiusMonotone ==
    \A i \in DOMAIN results : \A m \in MeasureIndexes :
        \A k1 \in KSet : \A k2 \in KSet :
            k1 < k2 => RadiusOf(results[i], m, k1) <= RadiusOf(results[i], m, k2)

\* the statistics the proportions list selects for group g at threshold k
HasOwnStatistic(row, g, k) ==
    IF args.proportions[g]
    THEN <<"group", args.groups[g], k>> \in DOMAIN row
    ELSE {<<"mean", args.groups[g], k>>, <<"std", args.groups[g], k>>} \subseteq DOMAIN row

\* C4 as stated: in single and in multi mode every group gets the statistic
\* its own proportions entry selects, the finishing pass adds the mean of
\* every proportion group, and a run with mixed flags completes.
C4_OwnFlagPerGroup ==
    /\ \A i \in DOMAIN results : \A g \in DOMAIN args.groups : \A k \in KSet :
           HasOwnStatistic(results[i], g, k)
    /\ \A i \in DOMAIN output : \A g \in DOMAIN args.groups : \A k \in KSet :
           /\ HasOwnStatistic(output[i], g, k)
           /\ args.proportions[g] => <<"mean", args.groups[g], k>> \in DOMAIN output[i]
    /\ err # "KeyError"

\* a requested k exceeds the whole population of some measure's column
Insufficient ==
    \E m \in MeasureIndexes : \E k \in KSet :
        k > SumCol(args.popLocations, args.populations[m])

\* C5: when a requested k exceeds the population of the whole reference set
\* for some measure, no point's row is ever completed, nothing is returned
\* and the call ends by raising.
C5_InsufficientPopulationRaises ==
    (Insufficient /\ CheckError(args) = "") =>
        /\ results = <<>>
        /\ output = <<>>
        /\ pc \in {"called", "loop", "raised"}

\* a multi-mode run that raised IndexError in the walk of its second measure
\* after the first measure's column sufficed
C5_Witness ==
    /\ pc = "raised"
    /\ err = "IndexError"
    /\ multi
    /\ \A k \in KSet : k <= SumCol(args.popLocations, args.populations[1])
    /\ \E k \in KSet : k > SumCol(args.popLocations, args.populations[2])

\* the configurations C6 names as invalid
ClaimedInvalid(a) ==
    \/ a.groupsType # "list"
    \/ a.populationsType \notin {"str", "list"}
    \/ /\ a.populationsType = "list"
       /\ Len(a.populations) > 1
       /\ Len(a.populations) # Len(a.groups)
    \/ a.kValuesType # "list"

\* the call raised in the checks of lines 98-113, before line 117
RaisedByChecks == pc = "raised" /\ popLocations = args.popLocations

\* C6 as stated: the checks raise exactly for the configurations named
\* invalid, a single population name being accepted, and they raise before
\* the k list or the reference table is modified and before any point is
\* processed.
C6_ConfigErrorExactly ==
    pc # "called" =>
        /\ RaisedByChecks <=> ClaimedInvalid(args)
        /\ RaisedByChecks =>
               kValues = args.kValues /\ results = <<>> /\ output = <<>>

\* C7 as stated: once the call has returned or failed, the reference table
\* has the same rows in the same order and the same columns as at the call.
C7_TableUntouched ==
    pc \in {"returned", "raised"} => popLocations = args.popLocations

\* a row of the reference table without its Distance column
OwnColumns(row) ==
    [id |-> row.id, North |-> row.North, East |-> row.East,
     P1 |-> row.P1, P2 |-> row.P2, A |-> row.A, B |-> row.B]

\* C7 amended: at every moment of the call the reference table holds the same
\* rows with the same values in every column other than Distance; a call that
\* fails in the configuration checks leaves the table as it was.
C7_RowsKept ==
    /\ Len(popLocations) = Len(args.popLocations)
    /\ {OwnColumns(popLocations[i]) : i \in DOMAIN popLocations} = Locations
    /\ (pc = "raised" /\ CheckError(args) # "") => popLocations = args.popLocations

\* a returned call that left the rows in another order than it found them
C7_Witness ==
    /\ pc = "returned"
    /\ Len(popLocations) >= 2
    /\ popLocations[1].id # args.popLocations[1].id

\* the reference table as passed, annotated and sorted for point i alone
FreshTable(i) ==
    CHOOSE s \in SortValues(AssignDistance(args.popLocations, args.points[i])) : TRUE

\* C8: the row written for a point, and the error raised at a point, are the
\* ones computed from the reference table as passed, whatever points were
\* processed before and whatever order tied locations are in.
C8_PointIndependence ==
    /\ \A i \in DOMAIN results :
           results[i] = PointResult(FreshTable(i), args, multi, i - 1).result
    /\ (pc = "raised" /\ CheckError(args) = "" /\ Len(results) < Len(args.points)) =>
           PointResult(FreshTable(Len(results) + 1), args, multi, Len(results)).err = err

\* a second point was processed on a table the first point left in another
\* order, with two locations of different population tied in distance
C8_Witness ==
    /\ Len(results) = 2
    /\ popLocations[1].Distance = popLocations[2].Distance
    /\ popLocations[1].P1 # popLocations[2].P1
    /\ \E i \in DOMAIN popLocations : popLocations[i].id # args.popLocations[i].id
    /\ \E k \in KSet : k >= 1

RECURSIVE SetSumProd(_, _, _)
SetSumProd(S, v, w) ==
    IF S = {} THEN 0
    ELSE LET r == CHOOSE x \in S : TRUE IN r[v] * r[w] + SetSumProd(S \ {r}, v, w)

RECURSIVE SetSumSqDev(_, _, _, _, _)
\* the sum over S of w * (v*d - n)^2: d^2 times the weighted squared deviations
\* from the mean n/d
SetSumSqDev(S, v, w, n, d) ==
    IF S = {} THEN 0
    ELSE LET r == CHOOSE x \in S : TRUE
         IN  r[w] * (r[v] * d - n) * (r[v] * d - n) + SetSumSqDev(S \ {r}, v, w, n, d)

\* row holds for group g and threshold k the weighted mean and the biased
\* weighted standard deviation over the locations within the radius of point
WeightedStatsRight(row, point, g, k) ==
    LET m == IF multi THEN g ELSE 1
        w == args.populations[m]
        v == args.groups[g]
        S == Within(point, RadiusOf(row, m, k))
        W == SetSum(S, w)
        mean == row[<<"mean", v, k>>]
        std == row[<<"std", v, k>>]
    IN  /\ W > 0
        /\ mean[2] > 0
        /\ mean[1] * W = mean[2] * SetSumProd(S, v, w)
        /\ std[1] = "sqrt"
        /\ std[3] > 0
        /\ std[2] * (W * mean[2] * mean[2]) = std[3] * SetSumSqDev(S, v, w, mean[1], mean[2])

\* C9: for a group whose proportion flag is false, the stored mean is
\* sum(w*v)/sum(w) over the selection and the stored std is the square root of
\* sum(w*(v-mean)^2)/sum(w), with w the measure's population column.
C9_WeightedMeanStd ==
    /\ \A i \in DOMAIN results : \A g \in DOMAIN args.groups : \A k \in KSet :
           (~args.proportions[g] /\ <<"mean", args.groups[g], k>> \in DOMAIN results[i]) =>
               WeightedStatsRight(results[i], args.points[i], g, k)
    /\ \A i \in DOMAIN output : \A g \in DOMAIN args.groups : \A k \in KSet :
           (~args.proportions[g] /\ <<"mean", args.groups[g], k>> \in DOMAIN output[i]) =>
               WeightedStatsRight(output[i], args.points[i], g, k)

\* a returned row with mean 1/3 and std sqrt(2/9): two locations of weights
\* 2 and 1 and values 0 and 1
C9_Witness ==
    \E i \in DOMAIN output : \E k \in KSet :
        /\ ~args.proportions[1]
        /\ output[i][<<"mean", "A", k>>] = <<1, 3>>
        /\ output[i][<<"std", "A", k>>] = <<"sqrt", 2, 9>>

\* the smallest k of the list
SmallestK == CHOOSE k \in KSet : \A k2 \in KSet : k <= k2

\* locations at distance 0 of the point whose population reaches the smallest k
AtPoint(point) ==
    {r \in Locations : DistanceTo(point, r) = 0 /\ r.P1 >= SmallestK}

\* C10 as stated: a location at distance 0 whose population is at least the
\* smallest k gives radius 0 for that k and is the whole selection, so the
\* total is its own population.
C10_AloneAtZero ==
    \A i \in DOMAIN results : \A r \in AtPoint(args.points[i]) :
        /\ RadiusOf(results[i], 1, SmallestK) = 0
        /\ Within(args.points[i], RadiusOf(results[i], 1, SmallestK)) = {r}
        /\ TotalOf(results[i], 1, SmallestK) = r.P1

\* C10 amended: with such a location and a smallest k >= 1 the radius is 0 and
\* the selection is every location of truncated distance 0, the total the sum
\* of their populations; with a smallest k <= 0 the radius is the largest
\* distance and the selection is the whole reference set.
C10_AllAtZero ==
    \A i \in DOMAIN results :
        AtPoint(args.points[i]) # {} =>
            IF SmallestK >= 1
            THEN /\ RadiusOf(results[i], 1, SmallestK) = 0
                 /\ TotalOf(results[i], 1, SmallestK) = SetSum(Within(args.points[i], 0), "P1")
            ELSE /\ \A d \in Distances(args.points[i]) : d <= RadiusOf(results[i], 1, SmallestK)
                 /\ RadiusOf(results[i], 1, SmallestK) \in Distances(args.points[i])
                 /\ TotalOf(results[i], 1, SmallestK) = SetSum(Locations, "P1")

\* two populated locations at distance 0 of a processed point, smallest k >= 1,
\* and also a location further away
C10_Witness ==
    \E i \in DOMAIN results :
        /\ SmallestK >= 1
        /\ Cardinality(AtPoint(args.points[i])) = 2
        /\ TotalOf(results[i], 1, SmallestK) > SmallestK

\* the checks passed: the k list has been sorted and is in use
Started == pc # "called" /\ CheckError(args) = ""

Occurrences(s, k) == Cardinality({j \in DOMAIN s : s[j] = k})

\* the k values that name the radius columns of a result row
RadiusColumns(row) == {key[3] : key \in {x \in DOMAIN row : x[1] = "radius"}}

\* C11 as stated: the k list in use is strictly ascending, hence without
\* repeated values, for every list the caller supplies.
C11_StrictlyAscending ==
    Started => \A j \in 1..(Len(kValues) - 1) : kValues[j] < kValues[j + 1]

\* C11 amended: the k list in use is the caller's list in non-decreasing
\* order, every value as often as the caller wrote it; the columns of a
\* result row are named by the distinct values.
C11_SortedNotDeduplicated ==
    Started =>
        /\ \A j \in 1..(Len(kValues) - 1) : kValues[j] <= kValues[j + 1]
        /\ Len(kValues) = Len(args.kValues)
        /\ \A k \in 0..MaxK : Occurrences(kValues, k) = Occurrences(args.kValues, k)
        /\ \A i \in DOMAIN results : RadiusColumns(results[i]) = KSet

\* a point was processed with a list the caller wrote in descending order
C11_Witness ==
    /\ Len(results) >= 1
    /\ Len(args.kValues) = 2
    /\ args.kValues[1] > args.kValues[2]
    /\ kValues[1] < kValues[2]

\* the population column group g is counted against: the shared one in single
\* mode, the one at its own position in multi mode
PopulationOf(g) == args.populations[IF multi THEN g ELSE 1]

\* at every reference location every group value is a sub-count of its
\* population column
SubCounts ==
    \A r \in Locations : \A g \in DOMAIN args.groups :
        0 <= r[args.groups[g]] /\ r[args.groups[g]] <= r[PopulationOf(g)]

\* the stored sum of proportion group g is between 0 and the total it is
\* divided by
SumWithinTotal(row, g, k) ==
    LET m == IF multi THEN g ELSE 1 IN
    /\ 0 <= row[<<"group", args.groups[g], k>>]
    /\ row[<<"group", args.groups[g], k>>] <= TotalOf(row, m, k)

\* a quotient that is a number of [0,1]
InUnitInterval(q) == q[2] > 0 /\ 0 <= q[1] /\ q[1] <= q[2]

\* the rows and columns the sub-count claim is about: proportion groups whose
\* sum has been stored
StoredSums(tbl) ==
    {<<i, g, k>> \in (DOMAIN tbl) \X (DOMAIN args.groups) \X KSet :
        args.proportions[g] /\ <<"group", args.groups[g], k>> \in DOMAIN tbl[i]}

\* C12 as stated: with sub-count groups, every stored group sum is at most
\* the total it is divided by, and every derived mean lies in [0,1].
C12_ProportionInUnitInterval ==
    (SubCounts /\ Started) =>
        /\ \A t \in StoredSums(results) : SumWithinTotal(results[t[1]], t[2], t[3])
        /\ \A t \in StoredSums(output) :
               /\ SumWithinTotal(output[t[1]], t[2], t[3])
               /\ InUnitInterval(output[t[1]][<<"mean", args.groups[t[2]], t[3]>>])

\* C12 amended: with sub-count groups, every stored group sum is at most the
\* total it is divided by; the derived mean lies in [0,1] for every k >= 1,
\* and for a k <= 0 it lies in [0,1] or, the total being 0, is 0/0 (nan).
C12_ProportionBounded ==
    (SubCounts /\ Started) =>
        /\ \A t \in StoredSums(results) : SumWithinTotal(results[t[1]], t[2], t[3])
        /\ \A t \in StoredSums(output) :
               LET row == output[t[1]]
                   mean == row[<<"mean", args.groups[t[2]], t[3]>>]
                   m == IF multi THEN t[2] ELSE 1
               IN  /\ SumWithinTotal(row, t[2], t[3])
                   /\ mean = Quotient(row[<<"group", args.groups[t[2]], t[3]>>],
                                      TotalOf(row, m, t[3]))
                   /\ IF t[3] >= 1 \/ TotalOf(row, m, t[3]) > 0
                      THEN InUnitInterval(mean)
                      ELSE mean = <<0, 0>>

\* a returned multi-mode row whose second group, a sub-count of its own
\* population column, makes up half of the total for some k >= 1
C12_Witness ==
    /\ SubCounts
    /\ multi
    /\ \E i \in DOMAIN output : \E k \in KSet :
           /\ k >= 1
           /\ args.proportions[2]
           /\ output[i][<<"mean", "B", k>>] = <<1, 2>>
           /\ output[i][<<"total", "B", k>>] > output[i][<<"group", "B", k>>]

====
